---------------------------- MODULE Spec2Model ----------------------------
(***************************************************************************)
(* A model of the registry proxy handlers of docker-proxy-vercel.          *)
(*                                                                         *)
(* The repository holds six variants of the same request handler:          *)
(*   "proxy"     src/api/proxy.js        (Edge runtime)                    *)
(*   "part_000"  src/unnamed/part_000    (Edge runtime)                    *)
(*   "part_001"  src/unnamed/part_001    (Edge runtime)                    *)
(*   "part_002"  src/unnamed/part_002    (Edge runtime)                    *)
(*   "part_003"  src/unnamed/part_003    (Edge runtime)                    *)
(*   "part_004"  src/unnamed/part_004    (Node runtime, (req, res))        *)
(* One of them is deployed; the variable `variant` says which.  A handler  *)
(* is an async function: it runs until it awaits an outbound fetch, and    *)
(* continues when that fetch resolves or rejects.  `pc` names the fetch    *)
(* the handler is waiting for.                                             *)
(*                                                                         *)
(* JavaScript strings that the code splits, joins or searches are          *)
(* sequences of tokens: the separators "/", ":", "?", "&", "=" are tokens  *)
(* of their own and every other token is a run of ordinary characters.     *)
(* Strings the code only compares or concatenates are TLA+ strings.        *)
(* The inbound URL always has the default port, so url.host = url.hostname.*)
(***************************************************************************)
EXTENDS Integers, Sequences, FiniteSets, TLC

\* Largest body length (in bytes) an upstream resource has.
MaxBody == 1

\* The most redirects a fetch with redirect: "follow" is seen to follow by
\* itself before it resolves (the runtime's own limit is 20).
MaxHops == 1

--------------------------------------------------------------------------
(* JavaScript values *)

\* null / undefined for a value that is otherwise a TLA+ string.
NULL == "<null>"
\* null for a value that is otherwise a token sequence.
NullStr == <<"<null>">>
\* An absent Content-Length header.
NoLength == -1

\* if (x) on a string-or-null.
Truthy(s) == s # NULL /\ s # ""
TruthyStr(s) == s # NullStr /\ s # <<>>

\* String.prototype.split(sep): the pieces between the separators.
RECURSIVE split(_, _)
split(s, sep) ==
    IF \A i \in 1..Len(s) : s[i] # sep
    THEN <<s>>
    ELSE LET i == CHOOSE k \in 1..Len(s) :
                      s[k] = sep /\ \A j \in 1..(k - 1) : s[j] # sep
         IN  <<SubSeq(s, 1, i - 1)>> \o split(SubSeq(s, i + 1, Len(s)), sep)

\* Array.prototype.join(sep).
RECURSIVE join(_, _)
join(parts, sep) ==
    IF Len(parts) = 0 THEN <<>>
    ELSE IF Len(parts) = 1 THEN parts[1]
    ELSE parts[1] \o <<sep>> \o join(Tail(parts), sep)

\* String.prototype.includes(tok) for a one-token needle.
includes(s, tok) == \E i \in 1..Len(s) : s[i] = tok

\* String.prototype.startsWith(prefix).
startsWith(s, prefix) ==
    Len(s) >= Len(prefix) /\ SubSeq(s, 1, Len(prefix)) = prefix

\* Array.prototype.splice(start, 0, item): insert item before JS index start.
splice(parts, start, item) ==
    SubSeq(parts, 1, start) \o <<item>> \o SubSeq(parts, start + 1, Len(parts))

\* new URL(target).pathname: the target up to the first "?".
pathname(target) == split(target, "?")[1]

\* new URL(target).search: the target from the first "?" on ("" without one).
search(target) == SubSeq(target, Len(pathname(target)) + 1, Len(target))

\* URLSearchParams.get(key): the value of the first parameter named key.
searchParamsGet(srch, key) ==
    LET params == IF srch = <<>> THEN <<>> ELSE split(Tail(srch), "&")
        named(i) == Len(params[i]) >= 1 /\ params[i][1] = key
        value(p) == IF Len(p) >= 2 /\ p[2] = "=" THEN SubSeq(p, 3, Len(p)) ELSE <<>>
    IN  IF \E i \in 1..Len(params) : named(i)
        THEN value(params[CHOOSE i \in 1..Len(params) :
                              named(i) /\ \A j \in 1..(i - 1) : ~named(j)])
        ELSE NullStr

--------------------------------------------------------------------------
(* Configuration *)

Variants == {"proxy", "part_000", "part_001", "part_002", "part_003", "part_004"}

dockerHub == "https://registry-1.docker.io"
CUSTOM_DOMAIN == "example.com"

\* Object.prototype members that `host in routes` and routes[host] also find.
ObjectPrototype == {"constructor"}
\* String(Object): what upstream + "/v2/" starts with for such a host.
FunctionObject == "function Object() { [native code] }"

\* The routes object literal, in the order of its keys.
routeEntries(v) ==
    LET common ==
          << <<"docker." \o CUSTOM_DOMAIN,     dockerHub>>,
             <<"quay." \o CUSTOM_DOMAIN,       "https://quay.io">>,
             <<"gcr." \o CUSTOM_DOMAIN,        "https://gcr.io">>,
             <<"k8s-gcr." \o CUSTOM_DOMAIN,    "https://k8s.gcr.io">>,
             <<"k8s." \o CUSTOM_DOMAIN,        "https://registry.k8s.io">>,
             <<"ghcr." \o CUSTOM_DOMAIN,       "https://ghcr.io">>,
             <<"cloudsmith." \o CUSTOM_DOMAIN, "https://docker.cloudsmith.io">>,
             <<"ecr." \o CUSTOM_DOMAIN,        "https://public.ecr.aws">> >>
    IN  IF v \in {"proxy", "part_002"}
        THEN Append(common, <<"docker-staging." \o CUSTOM_DOMAIN, dockerHub>>)
        ELSE common

\* The routes object as a map from its own keys.
routes(v) ==
    LET e == routeEntries(v)
    IN  [h \in {e[i][1] : i \in 1..Len(e)} |->
            e[CHOOSE i \in 1..Len(e) : e[i][1] = h][2]]

\* routes[host]: an own key, else an inherited member, else undefined.
routesGet(v, host) ==
    IF host \in DOMAIN routes(v) THEN routes(v)[host]
    ELSE IF host \in ObjectPrototype THEN FunctionObject
    ELSE NULL


\* routeByHosts(host) of api/proxy.js; routes[hostname] || "" elsewhere.
\* "" stands for every falsy result.
routeByHosts(v, mode, target, host) ==
    IF v = "proxy"
    THEN IF host \in DOMAIN routes(v) \/ host \in ObjectPrototype
         THEN routesGet(v, host)
         ELSE IF mode = "debug" THEN target ELSE ""
    ELSE IF routesGet(v, host) = NULL THEN "" ELSE routesGet(v, host)

--------------------------------------------------------------------------
(* Inbound requests *)

Hostnames ==
    {"docker." \o CUSTOM_DOMAIN, "quay." \o CUSTOM_DOMAIN,
     "unknown." \o CUSTOM_DOMAIN, "constructor"}

Methods == {"GET", "HEAD"}

Authorizations == {NULL, "Bearer client-token"}

\* Request paths, as the client sends them.
PathHome     == <<"/">>
PathV2       == <<"/", "v2", "/">>
PathAuth     == <<"/", "v2", "/", "auth">>
PathCatalog  == <<"/", "v2", "/", "_catalog">>
PathShort    == <<"/", "v2", "/", "nginx", "/", "manifests", "/", "latest">>
PathFull     == <<"/", "v2", "/", "library", "/", "nginx", "/", "manifests", "/", "latest">>
PathAuthelia == <<"/", "v2", "/", "auth", "elia", "/", "manifests", "/", "latest">>
PathV1       == <<"/", "v1", "/", "nginx", "/", "manifests", "/", "latest">>

DataPaths == {PathHome, PathV2, PathCatalog, PathShort, PathFull, PathAuthelia, PathV1}

\* Scope values a client asks a token for.
ScopeShort   == <<"repository", ":", "nginx", ":", "pull">>
ScopeFull    == <<"repository", ":", "library", "/", "nginx", ":", "pull">>
ScopeNoName  == <<"repository", ":", ":", "pull">>
ScopeTwo     == <<"nginx", ":", "pull">>
ScopeFour    == <<"repository", ":", "nginx", ":", "pull", ":", "x">>

Scopes == {ScopeShort, ScopeFull, ScopeNoName, ScopeTwo, ScopeFour, <<>>}

\* Query strings of a /v2/auth request.
AuthQueries ==
    {<<>>} \cup {<<"?", "scope", "=">> \o s : s \in Scopes}
           \cup {<<"?", "service", "=", "x", "&", "scope", "=">> \o ScopeShort}

\* A query string whose value holds a "/".
QuerySlash == <<"?", "last", "=", "a", "/", "b">>

Requests ==
    [hostname : Hostnames, method : Methods, authorization : Authorizations,
     target : DataPaths]
    \cup
    [hostname : Hostnames, method : {"GET"}, authorization : Authorizations,
     target : {PathAuth \o q : q \in AuthQueries}]
    \cup
    [hostname : {"docker." \o CUSTOM_DOMAIN, "quay." \o CUSTOM_DOMAIN},
     method : Methods, authorization : {NULL},
     target : {PathShort \o QuerySlash, PathCatalog \o QuerySlash}]

NoRequest ==
    [hostname |-> "", method |-> "", authorization |-> NULL, target |-> <<>>]

--------------------------------------------------------------------------
(* What the upstreams answer *)

CTypes ==
    {<<"application/vnd.docker.distribution.", "manifest", ".v2+", "json">>,
     <<"application/octet-stream">>}

\* The WWW-Authenticate header of a reply: the values the code's regular
\* expression finds between =" and ", in the order of the header.
NoChallenge == [present |-> FALSE, quoted |-> <<>>]
Challenges ==
    {NoChallenge,
     [present |-> TRUE, quoted |-> <<>>],
     [present |-> TRUE, quoted |-> <<"https://issuer.example/token">>],
     [present |-> TRUE, quoted |-> <<"https://issuer.example/token", "registry.example">>],
     [present |-> TRUE, quoted |-> <<"https://issuer.example/token", "">>]}

\* A Location header: an origin and the path and query after it.
NoLocation == [origin |-> NULL, target |-> <<>>]
StorageLocation == [origin |-> "https://storage.example", target |-> <<"/", "blob">>]
\* Location headers of a 3xx reply: none, same origin, another origin.
Locations ==
    {NoLocation,
     [origin |-> dockerHub, target |-> <<"/", "v2", "/", "elsewhere">>],
     StorageLocation}

\* An upstream resource: what it holds and how the server frames it.
\* declares: the server sends Content-Length; te: it sends Transfer-Encoding.
\* hops: the redirects fetch followed by itself before it got this answer.
Contents ==
    {c \in [ctype : CTypes, len : 0..MaxBody, declares : BOOLEAN, te : BOOLEAN] :
        c.te => ~c.declares}

Resource(status, c, www, loc) ==
    [status |-> status, ctype |-> c.ctype, len |-> c.len, declares |-> c.declares,
     te |-> c.te, www |-> www, location |-> loc, hops |-> 0]

PlainJson ==
    [ctype |-> <<"application/", "json">>, len |-> MaxBody, declares |-> TRUE, te |-> FALSE]

\* What a registry answers on GET /v2/ without credentials.
ProbeResources ==
    {Resource(st, PlainJson, www, NoLocation) : st \in {200, 401}, www \in Challenges}

\* What a token issuer answers.
TokenResources ==
    {Resource(st, c, NoChallenge, NoLocation) :
        st \in {200, 401}, c \in {x \in Contents : x.ctype # <<"application/octet-stream">>}}

\* What a registry answers on a data request.
OkResources == {Resource(200, c, NoChallenge, NoLocation) : c \in Contents}
DenyResource ==
    Resource(401, PlainJson,
             [present |-> TRUE, quoted |-> <<"https://issuer.example/token", "registry.example">>],
             NoLocation)
RedirectResources == {Resource(307, PlainJson, NoChallenge, loc) : loc \in Locations}
     \cup {Resource(308, PlainJson, NoChallenge, StorageLocation)}

\* The answer fetch(..., {redirect: "follow"}) resolves to after it followed
\* n Location headers by itself.
Followed(r, n) == [r EXCEPT !.hops = n]

\* fetch(..., {redirect: "manual"}) resolves to the first answer; with
\* redirect: "follow" never to a 3xx that has a Location.
DataResources(redirectMode) ==
    IF redirectMode = "manual"
    THEN OkResources \cup {DenyResource} \cup RedirectResources
    ELSE {Followed(r, n) :
             r \in OkResources \cup {DenyResource}
                   \cup {x \in RedirectResources : x.location = NoLocation},
             n \in 0..MaxHops}

\* The headers and body fetch resolves to for a request with this method.
NoHeaders ==
    [cl |-> NoLength, te |-> FALSE, ctype |-> <<>>, www |-> NoChallenge,
     location |-> NoLocation, api |-> "", acao |-> "", expose |-> ""]

\* status 0 stands for a rejected fetch.
ReplyTo(r, method) ==
    [status  |-> r.status,
     h       |-> [NoHeaders EXCEPT !.cl = IF r.declares THEN r.len ELSE NoLength,
                                   !.te = r.te, !.ctype = r.ctype, !.www = r.www,
                                   !.location = r.location],
     bodyLen |-> IF method = "HEAD" THEN 0 ELSE r.len]

\* A fetch that rejects (network failure) instead of resolving.
NetworkFailure ==
    [status |-> 0, ctype |-> <<>>, len |-> 0, declares |-> FALSE, te |-> FALSE,
     www |-> NoChallenge, location |-> NoLocation, hops |-> 0]

--------------------------------------------------------------------------
(* Responses the handler builds *)

\* JSON.stringify of a flat object: entries <<key, value, isString>>.
RECURSIVE jsonMembers(_)
jsonMembers(es) ==
    IF Len(es) = 0 THEN ""
    ELSE LET e == es[1]
             m == "\"" \o e[1] \o "\":" \o
                  (IF e[3] THEN "\"" \o e[2] \o "\"" ELSE e[2])
         IN  IF Len(es) = 1 THEN m ELSE m \o "," \o jsonMembers(Tail(es))

JSONstringify(es) == "{" \o jsonMembers(es) \o "}"

\* JSON.stringify(routes).
routesJson(v) ==
    LET e == routeEntries(v)
    IN  JSONstringify([i \in 1..Len(e) |-> <<e[i][1], e[i][2], TRUE>>])

\* The 54 bytes of the tip text of part_000 line 31 (it is not ASCII).
TipText == "......................................................"

\* body: "null" (no body), "buffer" (a string or byte array the handler holds),
\* "stream" (the body stream of a fetch response, length not known to the handler).
\* src: whose body it is.  raw: the fetch Response object itself is returned.
\* json: the entries of a body the handler wrote itself.
NoResponse ==
    [status |-> 0, h |-> NoHeaders, body |-> "null", bodyLen |-> 0,
     src |-> "", raw |-> FALSE, json |-> <<>>]

\* new Response(JSON.stringify(es), {status, headers}) and res.end(JSON.stringify(es)).
JsonResponse(status, h, es) ==
    [status |-> status, h |-> h, body |-> "buffer", bodyLen |-> Len(JSONstringify(es)),
     src |-> "proxy", raw |-> FALSE, json |-> es]

\* Response.redirect(location, 301); res.setHeader('Location', ..) and res.end().
RedirectResponse(status, location) ==
    [status |-> status, h |-> [NoHeaders EXCEPT !.location = location],
     body |-> "null", bodyLen |-> 0, src |-> "proxy", raw |-> FALSE, json |-> <<>>]

\* A response with status and headers only (res.statusCode = ..; res.end()).
EmptyResponse(status) == [NoResponse EXCEPT !.status = status, !.src = "proxy"]

\* The body of a fetch response: null for a HEAD request, a stream otherwise.
fetchBody(method) == IF method = "HEAD" THEN "null" ELSE "stream"

\* `return resp`: the fetch response object is the handler's response.
RawResponse(reply, src, method) ==
    [status |-> reply.status, h |-> reply.h, body |-> fetchBody(method),
     bodyLen |-> reply.bodyLen, src |-> src, raw |-> TRUE, json |-> <<>>]

\* The 404 of an unknown host.
hostNotFound(v, host) ==
    JsonResponse(404, NoHeaders,
        CASE v = "proxy"    -> << <<"routes", routesJson(v), FALSE>> >>
          [] v = "part_000" -> << <<"message", "Host Not Found", TRUE>>,
                                  <<"hostname", host, TRUE>>,
                                  <<"tip", TipText, TRUE>> >>
          [] v = "part_001" -> << <<"error", "Host Not Found", TRUE>>,
                                  <<"hostname", host, TRUE>> >>
          [] v = "part_002" -> << <<"message", "Host Not Found", TRUE>>,
                                  <<"hostname", host, TRUE>>,
                                  <<"routes", routesJson(v), FALSE>> >>
          [] v = "part_003" -> << <<"error", "Host Not Found", TRUE>> >>
          [] v = "part_004" -> << <<"error", "Host Not Found", TRUE>>,
                                  <<"host", host, TRUE>> >>)

Unauthorized == << <<"message", "UNAUTHORIZED", TRUE>> >>

\* responseUnauthorized.  part_002 declares it twice (lines 149 and 178); the
\* later function declaration is the one a call reaches.
responseUnauthorized(v, mode, host) ==
    LET scheme == IF v \in {"proxy", "part_002"} /\ mode = "debug" THEN "http" ELSE "https"
        realm  == scheme \o "://" \o host \o "/v2/auth"
        www    == [present |-> TRUE, quoted |-> <<realm, "vercel-docker-proxy">>]
        base   == [NoHeaders EXCEPT !.www = www]
        h == CASE v \in {"proxy", "part_002"} -> base
               [] v = "part_000" ->
                    [base EXCEPT !.ctype = <<"application/", "json">>]
               [] OTHER ->
                    [base EXCEPT !.ctype = <<"application/", "json", "; charset=utf-8">>,
                                 !.cl = Len(JSONstringify(Unauthorized)),
                                 !.api = "registry/2.0"]
    IN  JsonResponse(401, h, Unauthorized)

\* contentType.includes("json") || contentType.includes("manifest")
isManifest(ctype) == includes(ctype, "json") \/ includes(ctype, "manifest")

\* fixResponse of part_000.
fixResponse(reply, originalMethod, src) ==
    LET newHeaders == [reply.h EXCEPT !.api = "registry/2.0", !.acao = "*",
                           !.expose = "Docker-Content-Digest, Content-Length"]
        body(kind) == IF originalMethod = "HEAD" THEN "null" ELSE kind
        len        == IF originalMethod = "HEAD" THEN 0 ELSE reply.bodyLen
    IN  IF isManifest(reply.h.ctype)
        THEN [status |-> reply.status,
              h |-> [newHeaders EXCEPT !.cl = reply.bodyLen],
              body |-> body("buffer"), bodyLen |-> len,
              src |-> src, raw |-> FALSE, json |-> <<>>]
        ELSE [status |-> reply.status, h |-> newHeaders,
              body |-> body("stream"), bodyLen |-> len,
              src |-> src, raw |-> FALSE, json |-> <<>>]

\* fixResponse of part_002: no method, the Content-Length of the upstream.
fixResponse2(reply, src, method) ==
    LET newHeaders == [reply.h EXCEPT !.api = "registry/2.0", !.acao = "*"]
    IN  [status |-> reply.status, h |-> newHeaders,
         body |-> IF isManifest(reply.h.ctype) THEN "buffer" ELSE fetchBody(method),
         bodyLen |-> reply.bodyLen, src |-> src, raw |-> FALSE, json |-> <<>>]

\* forceContentLength of part_001 and fixResponse of part_003: the body is
\* read whole, its length written, transfer-encoding deleted; the body is
\* returned whatever the client's method.
forceContentLength(reply, originalMethod, src) ==
    [status |-> reply.status,
     h |-> [reply.h EXCEPT !.api = "registry/2.0", !.acao = "*",
                           !.cl = reply.bodyLen, !.te = FALSE],
     body |-> "buffer", bodyLen |-> reply.bodyLen,
     src |-> src, raw |-> FALSE, json |-> <<>>]

\* The forwarded response of part_004: upstream headers without
\* transfer-encoding, content-encoding, connection, content-length; then the
\* length of the buffer.
nodeResponse(reply, src) ==
    [status |-> reply.status,
     h |-> [reply.h EXCEPT !.te = FALSE, !.api = "registry/2.0",
                           !.cl = reply.bodyLen, !.acao = "*"],
     body |-> "buffer", bodyLen |-> reply.bodyLen,
     src |-> src, raw |-> FALSE, json |-> <<>>]

\* The final response of api/proxy.js: the upstream's body stream and headers.
passThrough(reply, src, method, cors) ==
    [status |-> reply.status,
     h |-> [reply.h EXCEPT !.api = "registry/2.0",
                           !.acao = IF cors THEN "*" ELSE reply.h.acao],
     body |-> fetchBody(method), bodyLen |-> reply.bodyLen,
     src |-> src, raw |-> FALSE, json |-> <<>>]

--------------------------------------------------------------------------
(* The handler, from one await to the next *)

\* An outbound fetch.  authorization = NULL: no Authorization header is sent.
\* service = NULL, scope = NullStr: the query parameter is not set.
Call(kind, origin, target, method, authorization, redirect) ==
    [kind |-> kind, origin |-> origin, target |-> target, method |-> method,
     authorization |-> authorization, redirect |-> redirect,
     service |-> NULL, scope |-> NullStr]

NoCall == Call("", "", <<>>, "", NULL, "")

\* Where the handler stands after a run of synchronous code: it returned a
\* response, it threw (the returned promise rejects), or it awaits a fetch.
Emit(response) ==
    [pc |-> "done", outcome |-> "response", resp |-> response, call |-> NoCall]
Throw ==
    [pc |-> "done", outcome |-> "threw", resp |-> NoResponse, call |-> NoCall]
Await(call) ==
    [pc |-> call.kind, outcome |-> "pending", resp |-> NoResponse, call |-> call]

\* new URL(upstream + ...) and fetch(upstream + ...) parse only an absolute URL.
validUrl(upstream) == upstream # FunctionObject

\* catch (err) of part_004: res.statusCode = 500.
serverError == JsonResponse(500, NoHeaders, << <<"error", "fetch failed", TRUE>> >>)

\* The scope rule without its scopeParts.length === 3 test.
rewriteScopeAnyLength(scope, isDockerHub) ==
    IF TruthyStr(scope) /\ isDockerHub
    THEN LET scopeParts == split(scope, ":")
         IN  IF Len(scopeParts) >= 2 /\ ~includes(scopeParts[2], "/")
             THEN join([scopeParts EXCEPT ![2] = <<"library", "/">> \o scopeParts[2]], ":")
             ELSE scope
    ELSE scope

\* The Docker Hub scope rule of handleAuth.
rewriteScope(scope, isDockerHub) ==
    IF TruthyStr(scope) /\ isDockerHub
    THEN LET scopeParts == split(scope, ":")
         IN  IF Len(scopeParts) = 3 /\ ~includes(scopeParts[2], "/")
             THEN join([scopeParts EXCEPT ![2] = <<"library", "/">> \o scopeParts[2]], ":")
             ELSE scope
    ELSE scope

\* fetchToken and the end of handleAuth: the request to the token issuer.
fetchToken(v, realm, service, scope, authorization) ==
    [Call("token", realm, <<>>, "GET",
          IF Truthy(authorization) THEN authorization ELSE NULL, "follow")
     EXCEPT !.service = IF v = "part_004" \/ Truthy(service) THEN service ELSE NULL,
            !.scope   = IF TruthyStr(scope) THEN scope ELSE NullStr]

\* handleAuth up to its first await: the anonymous probe of <upstream>/v2/.
handleAuth(v, upstream) ==
    IF validUrl(upstream)
    THEN Await(Call("probe", upstream, PathV2, "GET", NULL, "follow"))
    ELSE Throw

\* handleAuth after the probe resolved to p.
handleAuthProbed(v, upstream, r, p) ==
    LET unchanged == IF v = "part_003"
                     THEN Emit(forceContentLength(p, r.method, "probe"))
                     ELSE Emit(RawResponse(p, "probe", "GET"))
        scope == rewriteScope(searchParamsGet(search(r.target), "scope"),
                              upstream = dockerHub)
    IN  IF p.status = 0 THEN Throw
        ELSE IF v \in {"proxy", "part_000", "part_002"} /\ p.status # 401 THEN unchanged
        ELSE IF ~p.h.www.present
             THEN IF v = "part_004" THEN Emit(EmptyResponse(p.status)) ELSE unchanged
        ELSE IF Len(p.h.www.quoted) < 2
             THEN CASE v = "proxy"    -> Throw
                    [] v = "part_004" -> Emit(EmptyResponse(401))
                    [] OTHER          -> unchanged
        ELSE Await(fetchToken(v, p.h.www.quoted[1], p.h.www.quoted[2], scope,
                              r.authorization))

\* handleAuth after the token issuer resolved to t.
handleAuthToken(v, r, t) ==
    IF t.status = 0 THEN Throw
    ELSE CASE v = "part_003" -> Emit(forceContentLength(t, r.method, "token"))
           [] v = "part_004" ->
                Emit([status |-> t.status,
                      h |-> [NoHeaders EXCEPT !.ctype = <<"application/", "json">>,
                                              !.cl = t.bodyLen],
                      body |-> "buffer", bodyLen |-> t.bodyLen,
                      src |-> "token", raw |-> FALSE, json |-> <<>>])
           [] OTHER -> Emit(RawResponse(t, "token", "GET"))

\* The library/ rule with pathParts.length >= 5 for its length test.
needsLibraryAtLeast5(v, path) ==
    LET pathParts == split(path, "/")
    IN  /\ Len(pathParts) >= 5
        /\ v # "proxy" => (pathParts[2] = <<"v2">> /\ ~includes(pathParts[3], "/"))

\* The Docker Hub library/ rule: does this path (part_004: this url) get it.
needsLibrary(v, path) ==
    LET pathParts == split(path, "/")
    IN  /\ Len(pathParts) = 5
        /\ v # "proxy" => (pathParts[2] = <<"v2">> /\ ~includes(pathParts[3], "/"))

\* pathParts.splice(2, 0, "library"); pathParts.join("/")
withLibrary(path) == join(splice(split(path, "/"), 2, <<"library">>), "/")

\* The data path up to its first await: the library/ rule, then the fetch.
forward(v, upstream, r) ==
    LET isDockerHub == upstream = dockerHub
        url     == IF v = "part_004" THEN r.target ELSE pathname(r.target)
        srch    == IF v = "part_004" THEN <<>> ELSE search(r.target)
        rewrite == isDockerHub /\ needsLibrary(v, url)
        path    == IF rewrite THEN withLibrary(url) ELSE url
        method  == IF v \in {"part_001", "part_003"} THEN "GET" ELSE r.method
        redirect == CASE v \in {"part_001", "part_003"} -> "follow"
                      [] v = "proxy" -> IF isDockerHub THEN "manual" ELSE "follow"
                      [] OTHER -> "manual"
    IN  IF rewrite /\ v \in {"proxy", "part_000", "part_002"}
        THEN Emit(RedirectResponse(301,
                    [origin |-> "https://" \o r.hostname, target |-> path \o srch]))
        ELSE IF ~validUrl(upstream)
        THEN IF v = "part_004" THEN Emit(serverError) ELSE Throw
        ELSE Await(Call("primary", upstream, path \o srch, method,
                        r.authorization, redirect))

\* The handler up to its first await.
handler(v, mode, targetUpstream, r) ==
    LET upstream == routeByHosts(v, mode, targetUpstream, r.hostname)
        path     == pathname(r.target)
        home     == RedirectResponse(301,
                        [origin |-> "https://" \o r.hostname, target |-> PathV2])
    IN  CASE v = "proxy" ->
               IF path = PathHome THEN Emit(home)
               ELSE IF upstream = "" THEN Emit(hostNotFound(v, r.hostname))
               ELSE IF path = PathV2
                    THEN IF validUrl(upstream)
                         THEN Await(Call("root", upstream, PathV2, "GET",
                                         IF Truthy(r.authorization)
                                         THEN r.authorization ELSE NULL, "follow"))
                         ELSE Throw
               ELSE IF path = PathAuth THEN handleAuth(v, upstream)
               ELSE forward(v, upstream, r)
          [] v = "part_004" ->
               IF upstream = "" THEN Emit(hostNotFound(v, r.hostname))
               ELSE IF r.target = PathHome \/ r.target = <<>>
                    THEN Emit(RedirectResponse(301, [origin |-> "", target |-> PathV2]))
               ELSE IF startsWith(r.target, PathAuth) THEN handleAuth(v, upstream)
               ELSE forward(v, upstream, r)
          [] OTHER ->
               IF upstream = "" THEN Emit(hostNotFound(v, r.hostname))
               ELSE IF path = PathHome THEN Emit(home)
               ELSE IF path = PathAuth THEN handleAuth(v, upstream)
               ELSE forward(v, upstream, r)

\* handlerRoot with a retry of a fetch that failed.
handlerRootRetry(v, mode, r, x) ==
    IF x.status = 0
    THEN Await(Call("root", routeByHosts(v, mode, "", r.hostname), PathV2, "GET",
                    IF Truthy(r.authorization) THEN r.authorization ELSE NULL,
                    "follow"))
    ELSE IF x.status = 401 THEN Emit(responseUnauthorized(v, mode, r.hostname))
    ELSE Emit(RawResponse(x, "root", "GET"))

\* api/proxy.js after its GET <upstream>/v2/ resolved to x.
handlerRoot(v, mode, r, x) ==
    IF x.status = 0 THEN Throw
    ELSE IF x.status = 401 THEN Emit(responseUnauthorized(v, mode, r.hostname))
    ELSE Emit(RawResponse(x, "root", "GET"))

\* The handler after the upstream resolved to x.
handlerForwarded(v, mode, upstream, r, x) ==
    LET redirects == IF v = "proxy" THEN {301, 302, 307} ELSE {301, 302, 307, 308}
        location  == x.h.location
        isRedirect == x.status \in redirects /\ location # NoLocation
        denied    == Emit(responseUnauthorized(v, mode, r.hostname))
        resolve(method, authorization) ==
            Await(Call("redirect", location.origin, location.target, method,
                       authorization, "follow"))
    IN  IF x.status = 0
        THEN IF v = "part_004" THEN Emit(serverError) ELSE Throw
        ELSE CASE v = "proxy" ->
                    IF x.status = 401 THEN denied
                    ELSE IF upstream = dockerHub /\ isRedirect THEN resolve("GET", NULL)
                    ELSE Emit(passThrough(x, "primary", r.method, FALSE))
               [] v = "part_000" ->
                    IF isRedirect
                    THEN resolve(r.method,
                                 IF Truthy(r.authorization) THEN r.authorization ELSE "")
                    ELSE IF x.status = 401 THEN denied
                    ELSE Emit(fixResponse(x, r.method, "primary"))
               [] v = "part_002" ->
                    IF isRedirect THEN resolve("GET", NULL)
                    ELSE IF x.status = 401 THEN denied
                    ELSE Emit(fixResponse2(x, "primary", r.method))
               [] v \in {"part_001", "part_003"} ->
                    IF x.status = 401 THEN denied
                    ELSE Emit(forceContentLength(x, r.method, "primary"))
               [] v = "part_004" ->
                    IF x.status = 401 THEN denied
                    ELSE IF x.status \in redirects
                    THEN Emit(RedirectResponse(x.status,
                                IF location = NoLocation
                                THEN [origin |-> "null", target |-> <<>>]
                                ELSE location))
                    ELSE Emit(nodeResponse(x, "primary"))

\* The handler after the Location target resolved to b.
handlerRedirected(v, r, b) ==
    IF b.status = 0 THEN Throw
    ELSE CASE v = "proxy"    -> Emit(passThrough(b, "redirect", "GET", TRUE))
           [] v = "part_000" -> Emit(fixResponse(b, r.method, "redirect"))
           [] v = "part_002" -> Emit(fixResponse2(b, "redirect", "GET"))

--------------------------------------------------------------------------
(* The state machine *)

VARIABLES
    variant,          \* which handler file is deployed
    MODE,             \* process.env.MODE || "production"
    TARGET_UPSTREAM,  \* process.env.TARGET_UPSTREAM || ""
    req,              \* the inbound request being handled
    pc,               \* "idle", the fetch awaited, or "done"
    calls,            \* the outbound fetches of this request, in order
    served,           \* what each of them was answered with (a resource)
    outcome,          \* "none", "pending", "response" or "threw"
    resp              \* the response returned, when outcome = "response"

vars == <<variant, MODE, TARGET_UPSTREAM, req, pc, calls, served, outcome, resp>>
config == <<variant, MODE, TARGET_UPSTREAM>>

\* The environments a variant reads: MODE in api/proxy.js and part_002,
\* TARGET_UPSTREAM in api/proxy.js.
Init ==
    /\ variant \in Variants
    /\ MODE \in IF variant \in {"proxy", "part_002"}
                THEN {"production", "debug"} ELSE {"production"}
    /\ TARGET_UPSTREAM \in IF variant = "proxy"
                           THEN {"", "http://localhost:5000"} ELSE {""}
    /\ req = NoRequest
    /\ pc = "idle"
    /\ calls = <<>>
    /\ served = <<>>
    /\ outcome = "none"
    /\ resp = NoResponse

upstreamOf(r) == routeByHosts(variant, MODE, TARGET_UPSTREAM, r.hostname)

\* The reply to the i-th fetch of this request.
reply(i) == ReplyTo(served[i], calls[i].method)

\* The handler moves on to where step says.
Continue(step) ==
    /\ pc' = step.pc
    /\ outcome' = step.outcome
    /\ resp' = step.resp
    /\ calls' = IF step.call = NoCall THEN calls ELSE Append(calls, step.call)

\* The platform invokes the handler with a request.
Receive ==
    /\ pc = "idle"
    /\ \E r \in Requests :
          LET step == handler(variant, MODE, TARGET_UPSTREAM, r)
          IN  /\ req' = r
              /\ pc' = step.pc
              /\ outcome' = step.outcome
              /\ resp' = step.resp
              /\ calls' = IF step.call = NoCall THEN <<>> ELSE <<step.call>>
              /\ served' = <<>>
    /\ UNCHANGED config

\* The anonymous probe of handleAuth resolves or rejects.
ProbeReturns ==
    /\ pc = "probe"
    /\ \E res \in ProbeResources \cup {NetworkFailure} :
          /\ served' = Append(served, res)
          /\ Continue(handleAuthProbed(variant, upstreamOf(req), req,
                                       ReplyTo(res, "GET")))
    /\ UNCHANGED <<config, req>>

\* The token issuer's fetch resolves or rejects.
TokenReturns ==
    /\ pc = "token"
    /\ \E res \in TokenResources \cup {NetworkFailure} :
          /\ served' = Append(served, res)
          /\ Continue(handleAuthToken(variant, req, ReplyTo(res, "GET")))
    /\ UNCHANGED <<config, req>>

\* The GET <upstream>/v2/ of api/proxy.js resolves or rejects.
RootReturns ==
    /\ pc = "root"
    /\ \E res \in DataResources("follow") \cup {NetworkFailure} :
          /\ served' = Append(served, res)
          /\ Continue(handlerRoot(variant, MODE, req, ReplyTo(res, "GET")))
    /\ UNCHANGED <<config, req>>

\* The forwarded request resolves or rejects.
PrimaryReturns ==
    /\ pc = "primary"
    /\ LET call == calls[Len(calls)]
       IN  \E res \in DataResources(call.redirect) \cup {NetworkFailure} :
              /\ served' = Append(served, res)
              /\ Continue(handlerForwarded(variant, MODE, upstreamOf(req), req,
                                           ReplyTo(res, call.method)))
    /\ UNCHANGED <<config, req>>

\* The request to the Location target resolves or rejects.
RedirectReturns ==
    /\ pc = "redirect"
    /\ LET call == calls[Len(calls)]
       IN  \E res \in DataResources(call.redirect) \cup {NetworkFailure} :
              /\ served' = Append(served, res)
              /\ Continue(handlerRedirected(variant, req, ReplyTo(res, call.method)))
    /\ UNCHANGED <<config, req>>

\* The platform sends what the handler returned (or its own error page when
\* the handler threw); nothing of the request is kept.
Finish ==
    /\ pc = "done"
    /\ req' = NoRequest
    /\ pc' = "idle"
    /\ calls' = <<>>
    /\ served' = <<>>
    /\ outcome' = "none"
    /\ resp' = NoResponse
    /\ UNCHANGED config

Next ==
    \/ Receive
    \/ Finish
    \/ ProbeReturns
    \/ TokenReturns
    \/ RootReturns
    \/ PrimaryReturns
    \/ RedirectReturns

Spec == Init /\ [][Next]_vars

TypeOK ==
    /\ variant \in Variants
    /\ pc \in {"idle", "probe", "token", "root", "primary", "redirect", "done"}
    /\ outcome \in {"none", "pending", "response", "threw"}
    /\ Len(served) <= Len(calls)
    /\ Len(calls) <= 2
    /\ (pc = "done") = (outcome \in {"response", "threw"})

--------------------------------------------------------------------------
(* Properties *)

\* Indexes of the outbound fetches of one kind.
CallsOf(kind) == {i \in 1..Len(calls) : calls[i].kind = kind}

Responded == pc = "done" /\ outcome = "response"

\* C1: every response the handler emits carries a Content-Length header whose
\* value is the byte length of the emitted body, 0 when there is no body.
C1_ContentLengthExact ==
    Responded => resp.h.cl # NoLength /\ resp.h.cl = resp.bodyLen

\* C2: when the upstream or the Location target of a forwarded request answers
\* 401, the client gets the proxy's own 401: its realm is /v2/auth on the
\* inbound hostname (over http or https), its body {"message":"UNAUTHORIZED"},
\* and nothing of it is the upstream's.
C2_Upstream401Replaced ==
    (/\ Responded
     /\ \E i \in 1..Len(served) :
            calls[i].kind \in {"root", "primary", "redirect"} /\ served[i].status = 401)
    => /\ resp.status = 401
       /\ resp.src = "proxy"
       /\ resp.json = Unauthorized
       /\ resp.h.www.present
       /\ \E scheme \in {"http", "https"} :
              resp.h.www.quoted[1] = scheme \o "://" \o req.hostname \o "/v2/auth"

\* The step the handler takes when the fetch it awaits resolves to x.
After(kind, r, x) ==
    CASE kind = "probe"    -> handleAuthProbed(variant, upstreamOf(r), r, x)
      [] kind = "token"    -> handleAuthToken(variant, r, x)
      [] kind = "root"     -> handlerRoot(variant, MODE, r, x)
      [] kind = "primary"  -> handlerForwarded(variant, MODE, upstreamOf(r), r, x)
      [] kind = "redirect" -> handlerRedirected(variant, r, x)

\* Where the handler ends for request r when its fetches are answered with
\* the resources of `served`, in order.
Replay(r) ==
    LET s1 == handler(variant, MODE, TARGET_UPSTREAM, r)
        s2 == IF s1.pc = "done" \/ Len(served) < 1 THEN s1
              ELSE After(s1.pc, r, ReplyTo(served[1], s1.call.method))
        s3 == IF s2.pc = "done" \/ Len(served) < 2 THEN s2
              ELSE After(s2.pc, r, ReplyTo(served[2], s2.call.method))
    IN  s3

\* What of the handler's body the platform puts on the wire: none for HEAD.
sentBody(response, method) == IF method = "HEAD" THEN "null" ELSE response.body

\* C3: a forwarded HEAD request is answered without a body and with the
\* Content-Length a GET of the same URL gets from the same upstream.
C3_HeadLengthAsGet ==
    (/\ Responded
     /\ req.method = "HEAD"
     /\ CallsOf("primary") # {}
     /\ \A i \in 1..Len(served) : served[i].status # 0)
    => /\ sentBody(resp, req.method) = "null"
       /\ resp.h.cl = Replay([req EXCEPT !.method = "GET"]).resp.h.cl

\* The reference path rewriter: on Docker Hub, a path of exactly 5 components
\* /v2/<name>/<kind>/<ref> gets library as its 3rd component.
rewritePath(path, isDockerHub) ==
    IF /\ isDockerHub
       /\ Cardinality({i \in 1..Len(path) : path[i] = "/"}) = 4
       /\ Len(path) >= 4 /\ path[1] = "/" /\ path[2] = "v2" /\ path[3] = "/"
    THEN <<"/", "v2", "/", "library", "/">> \o SubSeq(path, 4, Len(path))
    ELSE path

\* A 301 of the proxy itself that is not the home page redirect.
LibraryRedirect ==
    /\ Responded /\ calls = <<>>
    /\ resp.status = 301 /\ resp.src = "proxy"
    /\ pathname(req.target) # PathHome

\* The paths the rule speaks of: all but those of 5 components that do not
\* start with /v2/.
coveredPath(path) ==
    Cardinality({i \in 1..Len(path) : path[i] = "/"}) = 4
    => (Len(path) >= 4 /\ path[1] = "/" /\ path[2] = "v2" /\ path[3] = "/")

\* C4: the path that reaches the upstream (or, in the redirect realization,
\* the path of the proxy's 301) is rewritePath of the inbound path.
C4_ForwardedPathIsRewritePath ==
    LET expected == rewritePath(pathname(req.target), upstreamOf(req) = dockerHub)
    IN  coveredPath(pathname(req.target))
        => /\ \A i \in CallsOf("primary") : pathname(calls[i].target) = expected
           /\ LibraryRedirect => pathname(resp.h.location.target) = expected

\* The scope the client asked for: the one its query string was built from.
clientScope(r) ==
    IF \E s \in Scopes : r.target = PathAuth \o <<"?", "scope", "=">> \o s
    THEN CHOOSE s \in Scopes : r.target = PathAuth \o <<"?", "scope", "=">> \o s
    ELSE IF r.target = PathAuth \o <<"?", "service", "=", "x", "&", "scope", "=">> \o ScopeShort
    THEN ScopeShort
    ELSE NullStr

\* The reference scope rule: type:name:actions with no "/" in name becomes
\* type:library/name:actions; anything else is unchanged.
expectedScope(scope, isDockerHub) ==
    LET colons == {i \in 1..Len(scope) : scope[i] = ":"}
        first  == CHOOSE i \in colons : \A j \in colons : i <= j
        second == CHOOSE i \in colons : \A j \in colons : j <= i
    IN  IF /\ isDockerHub /\ scope # NullStr
           /\ Cardinality(colons) = 2
           /\ \A i \in (first + 1)..(second - 1) : scope[i] # "/"
        THEN SubSeq(scope, 1, first) \o <<"library", "/">>
                 \o SubSeq(scope, first + 1, Len(scope))
        ELSE scope

\* C5: the scope sent to the token issuer is the client's scope, with
\* library/ put before a name without "/" when the upstream is Docker Hub.
C5_ScopeRewritten ==
    \A i \in CallsOf("token") :
        LET expected == expectedScope(clientScope(req), upstreamOf(req) = dockerHub)
        IN  calls[i].scope = IF expected = <<>> THEN NullStr ELSE expected

\* A token request for repository:nginx:pull on Docker Hub went out with
\* repository:library/nginx:pull.
C5_Witness ==
    \E i \in CallsOf("token") :
        /\ upstreamOf(req) = dockerHub
        /\ clientScope(req) = ScopeShort
        /\ calls[i].scope = ScopeFull

\* C6: after a challenge with realm R and service S there is one GET to R,
\* with service only if S is there, scope only if the client gave one, the
\* client's Authorization if and only if it sent one; the probe has none.
C6_TokenRequestShape ==
    /\ Cardinality(CallsOf("token")) <= 1
    /\ \A i \in CallsOf("probe") : calls[i].authorization = NULL
    /\ \A i \in CallsOf("token") :
          LET quoted == served[i - 1].www.quoted
          IN  /\ calls[i - 1].kind = "probe"
              /\ calls[i].method = "GET"
              /\ calls[i].origin = quoted[1]
              /\ calls[i].service # NULL => (quoted[2] # "" /\ calls[i].service = quoted[2])
              /\ calls[i].scope # NullStr => TruthyStr(clientScope(req))
              /\ calls[i].authorization =
                     (IF Truthy(req.authorization) THEN req.authorization ELSE NULL)

\* Does the JSON body hold this member.
hasMember(json, key, value) ==
    \E i \in 1..Len(json) : json[i][1] = key /\ json[i][2] = value /\ json[i][3]

\* C7: a request for a hostname that is no key of the Route Table is answered
\* 404 {message: "Host Not Found", hostname}, with no outbound call.
C7_UnknownHost404 ==
    (req # NoRequest /\ req.hostname \notin DOMAIN routes(variant))
    => /\ calls = <<>>
       /\ Responded
       /\ resp.status = 404
       /\ hasMember(resp.json, "message", "Host Not Found")
       /\ hasMember(resp.json, "hostname", req.hostname)

\* C8: the router gives the configured origin for a hostname that is a key
\* of the Route Table and nothing for any other hostname.
C8_ExactHostMatch ==
    req # NoRequest
    => upstreamOf(req) = IF req.hostname \in DOMAIN routes(variant)
                         THEN routes(variant)[req.hostname] ELSE ""

\* C9: after a fetch that failed, the request ends with a 5xx response and
\* without any further fetch.
C9_NetworkFailureIs5xx ==
    \A i \in 1..Len(served) :
        served[i].status = 0
        => /\ Len(calls) = i
           /\ Responded
           /\ resp.status \in 500..599

\* C10: on /v2/auth, a probe reply without WWW-Authenticate, or with fewer
\* than two quoted values in it, is returned as it is, with no token request
\* and no exception.
C10_MalformedChallengeFallsBack ==
    (/\ pc = "done"
     /\ pathname(req.target) = PathAuth
     /\ Len(served) >= 1
     /\ served[1].status # 0
     /\ calls[1].kind = "probe"
     /\ (~served[1].www.present \/ Len(served[1].www.quoted) < 2))
    => /\ outcome = "response"
       /\ resp = RawResponse(reply(1), "probe", "GET")
       /\ Len(calls) = 1

\* The Location headers followed for the forwarded request among the first i
\* fetches: one for each request the handler makes to a Location, and those
\* fetch followed by itself.
RECURSIVE hopsFollowed(_)
hopsFollowed(i) ==
    IF i = 0 THEN 0
    ELSE hopsFollowed(i - 1)
         + (IF calls[i].kind = "redirect" THEN 1 ELSE 0)
         + (IF calls[i].kind \in {"primary", "redirect"} /\ i <= Len(served)
            THEN served[i].hops ELSE 0)

\* C11: for a forwarded request at most one redirect hop is followed: the
\* Location of a first Location target is never requested.
C11_OneRedirectHop ==
    hopsFollowed(Len(calls)) <= 1

\* C12: the request to the Location of a 3xx has the client's method, and
\* the client's Authorization header when the Location is on the upstream's
\* origin; it has no Authorization header at all when it is on another.
C12_RedirectRequestShape ==
    \A i \in CallsOf("redirect") :
        /\ calls[i].method = req.method
        /\ calls[i].authorization =
               (IF calls[i].origin = upstreamOf(req)
                THEN req.authorization ELSE NULL)

C14_ProtocolHeadersAlways ==
    Responded
    => /\ resp.h.api = "registry/2.0"
       /\ resp.h.acao = "*"
       /\ resp.h.expose = "Docker-Content-Digest, Content-Length"

\* C15: no response the handler emits carries a Transfer-Encoding header.
C15_NoTransferEncoding ==
    Responded => ~resp.h.te

\* What the library/ rule of the deployed variant makes of a url.
rewritten(url, isDockerHub) ==
    IF isDockerHub /\ needsLibrary(variant, url) THEN withLibrary(url) ELSE url

\* C16: the library/ rule changes nothing in a path it has already rewritten;
\* the request of a client that follows the proxy's 301 to the library/ path
\* is forwarded to the upstream with that path, not redirected again.
C16_RewriteIdempotent ==
    LET isDockerHub == upstreamOf(req) = dockerHub
        url    == IF variant = "part_004" THEN req.target ELSE pathname(req.target)
        once   == rewritten(url, isDockerHub)
        second == handler(variant, MODE, TARGET_UPSTREAM,
                          [req EXCEPT !.target = resp.h.location.target])
    IN  req # NoRequest
        => /\ rewritten(once, isDockerHub) = once
           /\ LibraryRedirect
              => /\ second.pc = "primary"
                 /\ second.call.target = resp.h.location.target

\* The proxy answered /v2/nginx/manifests/latest on Docker Hub with a 301 to
\* /v2/library/nginx/manifests/latest.
C16_Witness ==
    /\ LibraryRedirect
    /\ pathname(req.target) = PathShort
    /\ pathname(resp.h.location.target) = PathFull

\* C17: a request (for a routed hostname) starts the Auth Relay, that is the
\* anonymous probe, if and only if its path is exactly /v2/auth; a request
\* for any other path makes no probe and no token request.
C17_AuthRelayExactPath ==
    (/\ req # NoRequest
     /\ upstreamOf(req) # "" /\ validUrl(upstreamOf(req)))
    => /\ (pathname(req.target) = PathAuth)
              = (Len(calls) >= 1 /\ calls[1].kind = "probe")
       /\ pathname(req.target) # PathAuth
              => CallsOf("probe") = {} /\ CallsOf("token") = {}

\* Did the handler, at this step for request r, put library/ into the path:
\* in the path it fetches from the upstream or in the path of its own 301.
libraryInserted(step, r) ==
    \/ step.pc = "primary" /\ pathname(step.call.target) # pathname(r.target)
    \/ /\ step.outcome = "response" /\ step.resp.status = 301
       /\ step.resp.src = "proxy"
       /\ pathname(r.target) # PathHome
       /\ pathname(step.resp.h.location.target) # pathname(r.target)

\* C18: whether library/ is inserted is the same for a request and for the
\* same request without its query string, and the query string of the url
\* fetched from the upstream, or of the proxy's 301, is the inbound one.
C18_QueryUntouched ==
    LET bare == [req EXCEPT !.target = pathname(req.target)]
    IN  req # NoRequest
        => /\ libraryInserted(handler(variant, MODE, TARGET_UPSTREAM, req), req)
              = libraryInserted(handler(variant, MODE, TARGET_UPSTREAM, bare), bare)
           /\ \A i \in CallsOf("primary") :
                  search(calls[i].target) = search(req.target)
           /\ LibraryRedirect
              => search(resp.h.location.target) = search(req.target)

==========================================================================
